---- MODULE Spec2Model ----
(***************************************************************************)
(* Model of Playwright.execute (the node entry point of n8n-playwright):   *)
(* the per-item loop that reads the item's parameters, fetches the         *)
(* credentials, connects to or launches a browser, opens a context and a   *)
(* page, runs the custom script or navigates and dispatches the operation, *)
(* closes the browser and pushes the item's output, with the catch block   *)
(* that turns a failure into an error record when continueOnFail() holds.  *)
(*                                                                         *)
(* Every call that can throw (host getters, the automation library, the    *)
(* locator, the dispatcher, the script runner) is a step whose outcome is  *)
(* chosen nondeterministically.  `calls`, `attempted`, `failure` and        *)
(* `retLen` are history variables: they record what the run did and are    *)
(* never read by the actions.                                              *)
(***************************************************************************)
EXTENDS Integers, Sequences, FiniteSets

\* ---------------------------------------------------------------- bounds
MaxItems == 2
MaxScriptLen == 2

\* ------------------------------------------------------- program domains
Operations ==
    {"clickElement", "fillForm", "getText", "navigate", "runCustomScript",
     "takeScreenshot"}

\* the operations the input items of the model are drawn from: the script
\* operation and one of the five the dispatcher handles (execute treats the
\* five alike)
ItemOperations ==
    Operations \ {"clickElement", "fillForm", "getText", "takeScreenshot"}

BrowserTypes == {"chromium", "firefox", "webkit"}

\* credential records the host can hand out: executablePath is shown only
\* for launch, endpointUrl only for connect
CredentialSet ==
    { [connectionType |-> "launch", executablePath |-> "", endpointUrl |-> ""],
      [connectionType |-> "launch", executablePath |-> "/usr/bin/browser",
       endpointUrl |-> ""],
      [connectionType |-> "connect", executablePath |-> "",
       endpointUrl |-> "http://localhost:9222"] }

\* os.platform() of the host
Platforms == {"linux"}

ItemConfig == [operation : ItemOperations, browser : BrowserTypes]

\* value of `let result;` and `let executablePath;` before assignment
Undefined == "undefined"

\* error.message of the Error that execute throws itself
UnsupportedMessage == "Connect Over CDP is only supported for Chromium-based browsers"

\* error.message of what getBrowserExecutablePath throws
NotFoundMessage == "browser executable not found"

\* error.message of what the node-parameter reads at the top of the loop throw
ParameterMessage == "could not get parameter"

\* error.message of what any other callee (host getter, automation library,
\* dispatcher, script runner) throws
CalleeMessage == "callee failed"

VARIABLES
    items,           \* getInputData() with each item's node parameters
    credentials,     \* what getCredentials('playwrightCredentials') resolves to
    continueOnFail,  \* this.continueOnFail()
    os,              \* platform()
    i,               \* loop index, 1-based
    pc,              \* position inside the loop body
    status,          \* "running", "returned" or "thrown"
    returnData,      \* the aggregate output
    open,            \* items whose browser handle is open
    executablePath,  \* local of the current iteration
    result,          \* local of the current iteration
    calls,           \* history: the calls of the iteration begun last,
                     \*          each <<name, succeeded>>
    attempted,       \* history: the items for which a step was taken
    failure,         \* history: per item, the message of what it threw, or "none"
    retLen           \* history: per item, how many items its script returned

vars ==
    <<items, credentials, continueOnFail, os, i, pc, status, returnData, open,
      executablePath, result, calls, attempted, failure, retLen>>

config == <<items, credentials, continueOnFail, os>>

N == Len(items)

Running == status = "running"

\* the path getBrowserExecutablePath(browserType, browsersPath) resolves to
BundledPath(browserType) == "browsers/" \o browserType

\* the call `name`, with its outcome, appended to the iteration's history
Call(name, ok) == Append(calls, <<name, ok>>)

\* variant of ErrorRecord: the browser kind is hard-coded
ErrorRecordFixedBrowser(message, browserType) ==
    [json |-> [error |-> message, browserType |-> "chromium", os |-> os]]

\* the record the catch block pushes
ErrorRecord(message, browserType) ==
    [json |-> [error |-> message, browserType |-> browserType, os |-> os]]

\* what handleOperation resolves to for item k: one output item
OperationResult(k) == [json |-> [item |-> k, idx |-> 1]]

\* what runCustomScript resolves to for item k: the n items the script returned
ScriptResult(k, n) == [m \in 1..n |-> [json |-> [item |-> k, idx |-> m]]]

\* variant of PushResult: only the first item of a script's result is pushed
PushResultFirstOnly(rd, operation, res) ==
    IF operation = "runCustomScript"
       THEN IF res = <<>> THEN rd ELSE Append(rd, res[1])
       ELSE Append(rd, res)

\* returnData.push(...result) for the script, returnData.push(result) otherwise
PushResult(rd, operation, res) ==
    IF operation = "runCustomScript" THEN rd \o res ELSE Append(rd, res)

\* leaving the loop body for the next iteration
NextItem ==
    /\ i' = i + 1
    /\ pc' = "ConfigRead"
    /\ executablePath' = Undefined
    /\ result' = Undefined

\* variant of CatchBlock: continueOnFail() is not consulted
CatchBlockAlwaysContinue(message) ==
    /\ failure' = [failure EXCEPT ![i] = message]
    /\ returnData' = Append(returnData, ErrorRecord(message, items[i].browser))
    /\ NextItem
    /\ UNCHANGED status

\* catch (error) { if (this.continueOnFail()) { push; continue; } throw error; }
CatchBlock(message) ==
    /\ failure' = [failure EXCEPT ![i] = message]
    /\ IF continueOnFail
          THEN /\ returnData' = Append(returnData,
                                       ErrorRecord(message, items[i].browser))
               /\ NextItem
               /\ UNCHANGED status
          ELSE /\ status' = "thrown"
               /\ UNCHANGED <<returnData, i, pc, executablePath, result>>

Init ==
    /\ items \in UNION { [1..n -> ItemConfig] : n \in 0..MaxItems }
    /\ credentials \in CredentialSet
    /\ continueOnFail \in BOOLEAN
    /\ os \in Platforms
    /\ i = 1
    /\ pc = "ConfigRead"
    /\ status = "running"
    /\ returnData = <<>>
    /\ open = {}
    /\ executablePath = Undefined
    /\ result = Undefined
    /\ calls = <<>>
    /\ attempted = {}
    /\ failure = [k \in 1..Len(items) |-> "none"]
    /\ retLen = [k \in 1..Len(items) |-> 0]

\* the three getNodeParameter reads at the top of the loop body, outside try
ConfigRead ==
    /\ Running /\ pc = "ConfigRead" /\ i <= N
    /\ attempted' = attempted \cup {i}
    /\ \E ok \in BOOLEAN :
          /\ calls' = << <<"getNodeParameter", ok>> >>
          /\ IF ok
                THEN /\ pc' = "CredentialResolve"
                     /\ UNCHANGED <<status, failure>>
                ELSE /\ status' = "thrown"
                     /\ failure' = [failure EXCEPT ![i] = ParameterMessage]
                     /\ UNCHANGED pc
    /\ UNCHANGED <<config, i, returnData, open, executablePath, result, retLen>>

\* await this.getCredentials(...), then the branch on connectionType; in
\* launch mode executablePath = credentials.executablePath; if (!executablePath)
CredentialResolve ==
    /\ Running /\ pc = "CredentialResolve"
    /\ \E ok \in BOOLEAN :
          /\ calls' = Call("getCredentials", ok)
          /\ IF ok
                THEN /\ IF credentials.connectionType = "connect"
                           THEN /\ pc' = "ConnectBranch"
                                /\ UNCHANGED executablePath
                           ELSE /\ executablePath' = credentials.executablePath
                                /\ pc' = IF credentials.executablePath = ""
                                            THEN "Locate" ELSE "Launch"
                     /\ UNCHANGED <<i, status, returnData, result, failure>>
                ELSE CatchBlock(CalleeMessage)
    /\ UNCHANGED <<config, open, attempted, retLen>>

\* variant of ConnectBranch: the chromium check is missing
ConnectBranchNoCheck ==
    /\ Running /\ pc = "ConnectBranch"
    /\ \E ok \in BOOLEAN :
          /\ calls' = Call("connectOverCDP", ok)
          /\ IF ok
                THEN /\ open' = open \cup {i}
                     /\ pc' = "ContextOpen"
                     /\ UNCHANGED <<i, status, returnData, executablePath,
                                    result, failure>>
                ELSE /\ CatchBlock(CalleeMessage)
                     /\ UNCHANGED open
    /\ UNCHANGED <<config, attempted, retLen>>

\* connect: the chromium check, then playwright.chromium.connectOverCDP
ConnectBranch ==
    /\ Running /\ pc = "ConnectBranch"
    /\ IF items[i].browser # "chromium"
          THEN /\ CatchBlock(UnsupportedMessage)
               /\ UNCHANGED <<calls, open>>
          ELSE \E ok \in BOOLEAN :
                  /\ calls' = Call("connectOverCDP", ok)
                  /\ IF ok
                        THEN /\ open' = open \cup {i}
                             /\ pc' = "ContextOpen"
                             /\ UNCHANGED <<i, status, returnData,
                                            executablePath, result, failure>>
                        ELSE /\ CatchBlock(CalleeMessage)
                             /\ UNCHANGED open
    /\ UNCHANGED <<config, attempted, retLen>>

\* variant of Locate: a failed lookup is fatal at once, without the installer
LocateNoFallback ==
    /\ Running /\ pc = "Locate"
    /\ \E found \in BOOLEAN :
          /\ calls' = Call("getBrowserExecutablePath", found)
          /\ IF found
                THEN /\ executablePath' = BundledPath(items[i].browser)
                     /\ pc' = "Launch"
                     /\ UNCHANGED <<i, status, returnData, result, failure>>
                ELSE CatchBlock(NotFoundMessage)
    /\ UNCHANGED <<config, open, attempted, retLen>>

\* try { executablePath = getBrowserExecutablePath(...) } catch { ... }
Locate ==
    /\ Running /\ pc = "Locate"
    /\ \E found \in BOOLEAN :
          /\ calls' = Call("getBrowserExecutablePath", found)
          /\ IF found
                THEN /\ executablePath' = BundledPath(items[i].browser)
                     /\ pc' = "Launch"
                ELSE /\ pc' = "Install"
                     /\ UNCHANGED executablePath
    /\ UNCHANGED <<config, i, status, returnData, open, result, attempted,
                   failure, retLen>>

\* installBrowser(browserType) resolves to nothing whether or not the browser
\* is there afterwards: a browser still missing shows in the locator retry
InstallBrowserResolves == TRUE

\* await installBrowser(browserType) inside the inner catch
Install ==
    /\ Running /\ pc = "Install"
    /\ calls' = Call("installBrowser", InstallBrowserResolves)
    /\ IF InstallBrowserResolves
          THEN /\ pc' = "LocateRetry"
               /\ UNCHANGED <<i, status, returnData, executablePath, result,
                              failure>>
          ELSE CatchBlock(CalleeMessage)
    /\ UNCHANGED <<config, open, attempted, retLen>>

\* the second getBrowserExecutablePath, inside the inner catch: a throw here
\* reaches the outer catch
LocateRetry ==
    /\ Running /\ pc = "LocateRetry"
    /\ \E found \in BOOLEAN :
          /\ calls' = Call("getBrowserExecutablePath", found)
          /\ IF found
                THEN /\ executablePath' = BundledPath(items[i].browser)
                     /\ pc' = "Launch"
                     /\ UNCHANGED <<i, status, returnData, result, failure>>
                ELSE CatchBlock(NotFoundMessage)
    /\ UNCHANGED <<config, open, attempted, retLen>>

\* await playwright[browserType].launch({headless, slowMo, executablePath})
Launch ==
    /\ Running /\ pc = "Launch"
    /\ \E ok \in BOOLEAN :
          /\ calls' = Call("launch", ok)
          /\ IF ok
                THEN /\ open' = open \cup {i}
                     /\ pc' = "ContextOpen"
                     /\ UNCHANGED <<i, status, returnData, executablePath,
                                    result, failure>>
                ELSE /\ CatchBlock(CalleeMessage)
                     /\ UNCHANGED open
    /\ UNCHANGED <<config, attempted, retLen>>

\* variant of AfterPageOpen: the dispatcher runs without the navigation
AfterPageOpenSkipNavigate(operation) ==
    IF operation = "runCustomScript" THEN "ScriptRun" ELSE "Dispatch"

\* where the loop body goes once the page is open
AfterPageOpen(operation) ==
    IF operation = "runCustomScript" THEN "ScriptRun" ELSE "Navigate"

\* const context = await browser.newContext();
\* const page = await context.newPage(); then the branch on the operation
ContextOpen ==
    /\ Running /\ pc = "ContextOpen"
    /\ \/ /\ calls' = Call("newContext", FALSE)
          /\ CatchBlock(CalleeMessage)
       \/ \E ok \in BOOLEAN :
             /\ calls' = calls \o << <<"newContext", TRUE>>, <<"newPage", ok>> >>
             /\ IF ok
                   THEN /\ pc' = AfterPageOpen(items[i].operation)
                        /\ UNCHANGED <<i, status, returnData, executablePath,
                                       result, failure>>
                   ELSE CatchBlock(CalleeMessage)
    /\ UNCHANGED <<config, open, attempted, retLen>>

\* result = await runCustomScript(this, i, browser, page, playwright)
ScriptRun ==
    /\ Running /\ pc = "ScriptRun"
    /\ \/ \E n \in 0..MaxScriptLen :
             /\ calls' = Call("runCustomScript", TRUE)
             /\ result' = ScriptResult(i, n)
             /\ retLen' = [retLen EXCEPT ![i] = n]
             /\ pc' = "BrowserClose"
             /\ UNCHANGED <<i, status, returnData, executablePath, failure>>
       \/ /\ calls' = Call("runCustomScript", FALSE)
          /\ CatchBlock(CalleeMessage)
          /\ UNCHANGED retLen
    /\ UNCHANGED <<config, open, attempted>>

\* const url = this.getNodeParameter('url', i); await page.goto(url)
Navigate ==
    /\ Running /\ pc = "Navigate"
    /\ \/ /\ calls' = Call("getNodeParameter:url", FALSE)
          /\ CatchBlock(CalleeMessage)
       \/ \E ok \in BOOLEAN :
             /\ calls' = calls \o << <<"getNodeParameter:url", TRUE>>,
                                     <<"goto", ok>> >>
             /\ IF ok
                   THEN /\ pc' = "Dispatch"
                        /\ UNCHANGED <<i, status, returnData, executablePath,
                                       result, failure>>
                   ELSE CatchBlock(CalleeMessage)
    /\ UNCHANGED <<config, open, attempted, retLen>>

\* result = await handleOperation(operation, page, this, i)
Dispatch ==
    /\ Running /\ pc = "Dispatch"
    /\ \E ok \in BOOLEAN :
          /\ calls' = Call("handleOperation", ok)
          /\ IF ok
                THEN /\ result' = OperationResult(i)
                     /\ pc' = "BrowserClose"
                     /\ UNCHANGED <<i, status, returnData, executablePath,
                                    failure>>
                ELSE CatchBlock(CalleeMessage)
    /\ UNCHANGED <<config, open, attempted, retLen>>

\* variant of BrowserClose: the result is pushed before the browser is closed
BrowserClosePushFirst ==
    /\ Running /\ pc = "BrowserClose"
    /\ \E ok \in BOOLEAN :
          /\ calls' = Call("close", ok)
          /\ IF ok
                THEN /\ open' = open \ {i}
                     /\ returnData' =
                           PushResult(returnData, items[i].operation, result)
                     /\ NextItem
                     /\ UNCHANGED <<status, failure>>
                ELSE /\ open' = open
                     /\ failure' = [failure EXCEPT ![i] = CalleeMessage]
                     /\ IF continueOnFail
                           THEN /\ returnData' =
                                      Append(PushResult(returnData,
                                                        items[i].operation,
                                                        result),
                                             ErrorRecord(CalleeMessage,
                                                         items[i].browser))
                                /\ NextItem
                                /\ UNCHANGED status
                           ELSE /\ status' = "thrown"
                                /\ returnData' =
                                      PushResult(returnData,
                                                 items[i].operation, result)
                                /\ UNCHANGED <<i, pc, executablePath, result>>
    /\ UNCHANGED <<config, attempted, retLen>>

\* await browser.close(); returnData.push(...)  -- and on to the next item
BrowserClose ==
    /\ Running /\ pc = "BrowserClose"
    /\ \E ok \in BOOLEAN :
          /\ calls' = Call("close", ok)
          /\ IF ok
                THEN /\ open' = open \ {i}
                     /\ returnData' =
                           PushResult(returnData, items[i].operation, result)
                     /\ NextItem
                     /\ UNCHANGED <<status, failure>>
                ELSE /\ CatchBlock(CalleeMessage)
                     /\ UNCHANGED open
    /\ UNCHANGED <<config, attempted, retLen>>

\* the loop ends: return [returnData]
Return ==
    /\ Running /\ pc = "ConfigRead" /\ i > N
    /\ status' = "returned"
    /\ UNCHANGED <<config, i, pc, returnData, open, executablePath, result,
                   calls, attempted, failure, retLen>>

Next ==
    \/ ConfigRead
    \/ CredentialResolve
    \/ ConnectBranch
    \/ Locate
    \/ Install
    \/ LocateRetry
    \/ Launch
    \/ ContextOpen
    \/ ScriptRun
    \/ Navigate
    \/ Dispatch
    \/ BrowserClose
    \/ Return

Spec == Init /\ [][Next]_vars

\* ------------------------------------------------------------ properties
\* reading the histories

\* the item whose iteration `calls` records: the one in progress, or the one
\* just finished while the loop is at its head
LogItem == IF pc = "ConfigRead" /\ status # "thrown" THEN i - 1 ELSE i

\* the iteration that `calls` records is over
LogDone == pc = "ConfigRead" \/ status # "running"

HasCall(c, name) == \E k \in 1..Len(c) : c[k][1] = name

CountCall(c, name) == Cardinality({k \in 1..Len(c) : c[k][1] = name})

LastCall(c) == c[Len(c)]

\* index of the first call `name` in c, 0 when there is none
Pos(c, name) ==
    IF HasCall(c, name)
       THEN CHOOSE k \in 1..Len(c) :
               /\ c[k][1] = name
               /\ \A m \in 1..(k - 1) : c[m][1] # name
       ELSE 0

\* the call goes to the locator or the installer
IsLocateCall(call) ==
    call[1] \in {"getBrowserExecutablePath", "installBrowser"}

\* the call is one of the steps of the per-item state machine
IsStepCall(call) == ~IsLocateCall(call)

\* item j threw inside the try block, so its error reached the catch block
Caught(j) == failure[j] \notin {"none", ParameterMessage}

IsErrorItem(r) == "error" \in DOMAIN r.json

\* the output items in returnData that are normal output of item j
NormalOf(j) ==
    {p \in 1..Len(returnData) :
        /\ ~IsErrorItem(returnData[p])
        /\ returnData[p].json.item = j}

\* how many output items the operation of item j produced
Produced(j) ==
    IF items[j].operation = "runCustomScript" THEN retLen[j] ELSE 1

\* how many output items a finished item j contributes
Contribution(j) == IF Caught(j) THEN 1 ELSE Produced(j)

\* the sum of the script return lengths of the items 1..k
RECURSIVE ScriptReturned(_)
ScriptReturned(k) ==
    IF k = 0 THEN 0
    ELSE ScriptReturned(k - 1)
         + (IF items[k].operation = "runCustomScript" THEN retLen[k] ELSE 0)

\* the number of output items the items before j contributed
RECURSIVE ContributionsBefore(_)
ContributionsBefore(j) ==
    IF j <= 1 THEN 0
    ELSE ContributionsBefore(j - 1) + Contribution(j - 1)

\* the error record the specification describes for a failed item j
ExpectedError(j) ==
    [json |-> [error |-> failure[j], browserType |-> items[j].browser,
               os |-> os]]

\* the whole contribution of a finished item j
ExpectedOutput(j) ==
    IF Caught(j) THEN <<ExpectedError(j)>>
    ELSE [m \in 1..Produced(j) |-> [json |-> [item |-> j, idx |-> m]]]

RECURSIVE ExpectedUpTo(_)
ExpectedUpTo(j) ==
    IF j = 0 THEN <<>> ELSE ExpectedUpTo(j - 1) \o ExpectedOutput(j)

\* ---------------------------------------------------------------- claims

\* C1 (as stated): with continue-on-fail, when item j fails the output at
\* position j is the error record of j (message, browser kind of j, host
\* operating system) and the loop has gone on to item j+1.
C1_ErrorAtItemPosition ==
    \A j \in 1..N :
       (continueOnFail /\ Caught(j)) =>
          /\ Len(returnData) >= j
          /\ returnData[j] = ExpectedError(j)
          /\ i > j

\* C1 (amended): with continue-on-fail, when item j fails inside the try
\* block, the error record of j (message, browser kind of j, host operating
\* system) stands directly after the outputs of the items before j, i.e. at
\* position 1 + the number of outputs those items contributed, and the loop
\* has gone on to item j+1.
C1_ErrorAfterEarlierOutputs ==
    \A j \in 1..N :
       (continueOnFail /\ Caught(j)) =>
          /\ Len(returnData) >= ContributionsBefore(j) + 1
          /\ returnData[ContributionsBefore(j) + 1] = ExpectedError(j)
          /\ i > j

\* an item failed behind a script that returned no item or several, on a
\* non-chromium browser, and the loop went on
C1_Witness ==
    /\ continueOnFail
    /\ \E j \in 2..N :
          /\ Caught(j)
          /\ ContributionsBefore(j) + 1 # j
          /\ items[j].browser # "chromium"
          /\ i > j

\* C2: without continue-on-fail, a failure at item j ends the run: execute
\* throws, the loop never leaves j, no step is taken and no browser is
\* opened for any later item, and returnData holds only the normal outputs
\* of the items before j.
C2_FailureTerminatesRun ==
    \A j \in 1..N :
       (~continueOnFail /\ failure[j] # "none") =>
          /\ status = "thrown"
          /\ i = j
          /\ LogItem = j
          /\ attempted \subseteq 1..j
          /\ open \subseteq 1..j
          /\ \A k \in (j + 1)..N : failure[k] = "none" /\ retLen[k] = 0
          /\ \A p \in 1..Len(returnData) :
                /\ ~IsErrorItem(returnData[p])
                /\ returnData[p].json.item < j
          /\ Len(returnData) = ContributionsBefore(j)

\* the first of two items failed at navigation, after a browser was opened
C2_Witness ==
    /\ ~continueOnFail
    /\ N = 2
    /\ failure[1] # "none"
    /\ LastCall(calls) = <<"goto", FALSE>>
    /\ status = "thrown"

\* C3: an item with connect credentials and a firefox or webkit browser
\* fails with the unsupported-configuration error once its credentials are
\* fetched: connectOverCDP, launch, the locator and the installer are never
\* called for it, it never holds a browser handle, and it never gets past
\* the connect branch.
C3_ConnectRequiresChromium ==
    \A j \in 1..N :
       (credentials.connectionType = "connect"
          /\ items[j].browser \in {"firefox", "webkit"}) =>
          /\ j \notin open
          /\ retLen[j] = 0
          /\ failure[j] \in {"none", ParameterMessage, CalleeMessage,
                             UnsupportedMessage}
          /\ j < i => failure[j] # "none"
          /\ (j = i /\ Running) =>
                pc \in {"ConfigRead", "CredentialResolve", "ConnectBranch"}
          /\ (j = LogItem) =>
                /\ \A k \in 1..Len(calls) :
                      calls[k][1] \in {"getNodeParameter", "getCredentials"}
                /\ failure[j] = CalleeMessage =>
                      LastCall(calls) = <<"getCredentials", FALSE>>
                /\ (LogDone /\ LastCall(calls) = <<"getCredentials", TRUE>>) =>
                      failure[j] = UnsupportedMessage

\* a firefox item under connect credentials failed as unsupported
C3_Witness ==
    /\ credentials.connectionType = "connect"
    /\ LogItem \in 1..N
    /\ items[LogItem].browser = "firefox"
    /\ LastCall(calls) = <<"getCredentials", TRUE>>
    /\ failure[LogItem] = UnsupportedMessage

\* C4 (as stated): no browser handle of an earlier item is open once the
\* loop is at item i, none is open when execute returns, and at most one is
\* open at any time.
C4_BrowserClosedBeforeNextItem ==
    /\ \A k \in open : k >= i
    /\ Cardinality(open) <= 1
    /\ status = "returned" => open = {}

\* C5: an item that did not fail contributes exactly one output item when
\* its operation is not runCustomScript and exactly as many as the script
\* returned when it is; a failure-free run returns (number of non-script
\* items) + (sum of the script return lengths) output items.
C5_OutputCounts ==
    /\ \A j \in 1..N :
          (failure[j] = "none" /\ j < i) =>
             Cardinality(NormalOf(j)) =
                IF items[j].operation = "runCustomScript"
                   THEN retLen[j] ELSE 1
    /\ (status = "returned" /\ \A j \in 1..N : failure[j] = "none") =>
          Len(returnData) =
             Cardinality({j \in 1..N : items[j].operation # "runCustomScript"})
             + ScriptReturned(N)

\* a failure-free run over a script that returned nothing and a navigation
C5_Witness ==
    /\ status = "returned"
    /\ N = 2
    /\ \A j \in 1..N : failure[j] = "none"
    /\ items[1].operation = "runCustomScript" /\ retLen[1] = 0
    /\ items[2].operation = "navigate"
    /\ Len(returnData) = 1

\* a failure-free run over a script that returned several items
C5_WitnessMany ==
    /\ status = "returned"
    /\ \A j \in 1..N : failure[j] = "none"
    /\ \E j \in 1..N : items[j].operation = "runCustomScript" /\ retLen[j] = 2

\* the calls of the iteration to the locator and the installer, in order
LocateCalls == SelectSeq(calls, IsLocateCall)

C6_WitnessRetryFailed ==
    /\ LocateCalls = << <<"getBrowserExecutablePath", FALSE>>,
                        <<"installBrowser", TRUE>>,
                        <<"getBrowserExecutablePath", FALSE>> >>
    /\ failure[LogItem] = NotFoundMessage

\* C7 (as stated): with continue-on-fail no error of any step, the
\* parameter reads at the top of the loop body included, leaves execute.
C7_NoErrorEscapes == continueOnFail => status # "thrown"

\* the steps of one item, in the order the specification gives them
StepOrder(operation) ==
    << "getNodeParameter", "getCredentials",
       IF credentials.connectionType = "connect" THEN "connectOverCDP"
                                                 ELSE "launch",
       "newContext", "newPage" >>
    \o (IF operation = "runCustomScript"
           THEN << "runCustomScript", "close" >>
           ELSE << "getNodeParameter:url", "goto", "handleOperation",
                   "close" >>)

\* C8: the steps of one item are taken in the fixed order credential fetch,
\* browser acquisition, context open, page open and then, for a
\* runCustomScript item, the script runner (never page.goto, never the
\* dispatcher) and, for any other item, page.goto once and then the
\* dispatcher; each step is taken once and only after the one before it has
\* succeeded, so the dispatcher never runs after a failed navigation; an
\* item that did not fail has taken all of its steps.
C8_StepOrder ==
    calls # <<>> =>
       LET steps == SelectSeq(calls, IsStepCall)
           order == StepOrder(items[LogItem].operation)
       IN  /\ Len(steps) <= Len(order)
           /\ \A k \in 1..Len(steps) :
                 /\ steps[k][1] = order[k]
                 /\ k < Len(steps) => steps[k][2]
           /\ (LogDone /\ failure[LogItem] = "none") =>
                 (Len(steps) = Len(order) /\ LastCall(steps)[2])
           /\ (LogDone /\ failure[LogItem] # "none"
                 /\ failure[LogItem] # UnsupportedMessage) =>
                 ~LastCall(calls)[2]

\* a navigation item has run the dispatcher behind its one page.goto
C8_Witness ==
    /\ LogItem \in 1..N
    /\ items[LogItem].operation = "navigate"
    /\ HasCall(calls, "handleOperation")
    /\ CountCall(calls, "goto") = 1

\* a script item has run the script
C8_WitnessScript ==
    /\ LogItem \in 1..N
    /\ items[LogItem].operation = "runCustomScript"
    /\ HasCall(calls, "runCustomScript")

\* a navigation failed and the dispatcher was not run
C8_WitnessNavigationFailed ==
    /\ calls # <<>>
    /\ LastCall(calls) = <<"goto", FALSE>>
    /\ LogDone

\* C9: normal output of an item is in returnData only if browser.close()
\* was called for that item and succeeded; when the close failed none of
\* the item's normal output is in returnData.
C9_CloseBeforeEmit ==
    /\ \A j \in 1..N :
          NormalOf(j) # {} => (j < i /\ failure[j] = "none" /\ j \notin open)
    /\ LogItem \in 1..N =>
          /\ NormalOf(LogItem) # {} => LastCall(calls) = <<"close", TRUE>>
          /\ LastCall(calls) = <<"close", FALSE>> =>
                (NormalOf(LogItem) = {} /\ Caught(LogItem))
          /\ (LogDone /\ LastCall(calls) = <<"close", TRUE>>) =>
                Cardinality(NormalOf(LogItem)) = Produced(LogItem)

\* the dispatcher succeeded, the close failed, and the loop went on
C9_Witness ==
    /\ continueOnFail
    /\ LogItem = i - 1
    /\ HasCall(calls, "handleOperation")
    /\ LastCall(calls) = <<"close", FALSE>>

\* an item's output was pushed after its browser was closed
C9_WitnessEmitted ==
    /\ LogItem \in 1..N
    /\ NormalOf(LogItem) # {}
    /\ LastCall(calls) = <<"close", TRUE>>

\* C10: with continue-on-fail, returnData is at every moment the
\* concatenation, in input order, of the contributions of the items the
\* loop has finished, each contribution being either the item's complete
\* normal output or its single error record; the item in progress has
\* contributed nothing.
C10_OrderedContributions ==
    continueOnFail => returnData = ExpectedUpTo(i - 1)

\* a failed item followed by a script that returned two items
C10_Witness ==
    /\ continueOnFail
    /\ status = "returned"
    /\ N = 2
    /\ Caught(1)
    /\ items[2].operation = "runCustomScript"
    /\ failure[2] = "none"
    /\ retLen[2] = 2
    /\ Len(returnData) = 3

====
